---- MODULE Spec2Model ----
(***************************************************************************)
(* Model of the translation_chunker package: ChunkingConfig validation,    *)
(* TokenManager (token counting, binary search for a token boundary),      *)
(* BoundaryOptimizer (semantic boundary search, overlap, the shared        *)
(* LangChain splitter) and TextChunker (the chunk loop, validate_chunks).  *)
(*                                                                         *)
(* A text is a sequence of characters.  The characters are the classes the *)
(* code distinguishes: a letter "a", a letter "W" that the tokenizer        *)
(* encodes as two tokens, the sentence punctuation "." (for      *)
(* [.!?]), the blank " " and the newline "nl".  Scores are kept as tenths  *)
(* (5, 6, 8, 10 for 0.5, 0.6, 0.8, 1.0).                                   *)
(***************************************************************************)
EXTENDS Integers, Sequences, FiniteSets, TLC

VARIABLES
    config,             \* the ChunkingConfig of the TextChunker
    text,               \* the argument of chunk_text
    pc,                 \* position of the call
    remaining_text, chunk_id, current_position, chunks,   \* locals of chunk_text
    error,              \* the exception raised, "none" when none
    boundary_searches,  \* number of find_optimal_boundary calls made by the call
    cfg_args, cfg_pc,   \* ChunkingConfig(...) under construction
    ftb_text, ftb_target, left, right, best_pos, ftb_pc, ftb_ret, ftb_iters,
                        \* find_token_boundary, statement by statement
    vchunks, issues, vpc,                       \* validate_chunks on a given list
    splitter, spl_target, spl_pc, spl_used,     \* split_with_langchain, two callers
    fob_text, fob_target, fob_pc, fob_ret       \* find_optimal_boundary on a given text

vars == <<config, text, pc, remaining_text, chunk_id, current_position,
          chunks, error, boundary_searches, cfg_args, cfg_pc,
          ftb_text, ftb_target, left, right, best_pos, ftb_pc, ftb_ret, ftb_iters,
          vchunks, issues, vpc, splitter, spl_target, spl_pc, spl_used,
          fob_text, fob_target, fob_pc, fob_ret>>

chunkerVars == <<config, text, pc, remaining_text, chunk_id,
                 current_position, chunks, error, boundary_searches>>
cfgVars == <<cfg_args, cfg_pc>>
ftbVars == <<ftb_text, ftb_target, left, right, best_pos, ftb_pc, ftb_ret, ftb_iters>>
valVars == <<vchunks, issues, vpc>>
splVars == <<splitter, spl_target, spl_pc, spl_used>>
fobVars == <<fob_text, fob_target, fob_pc, fob_ret>>

(***************************************************************************)
(* Bounds of the model.                                                    *)
(***************************************************************************)
MaxTokens == 3      \* largest max_chunk_tokens of a chunker run
MaxWord == 2        \* longest word of the head of an input text
TailLen == 18       \* length of the long tail that makes a text >= 20 characters
MaxArg == 6         \* largest constructor argument tried for ChunkingConfig
MaxLen == 4         \* longest text given to find_token_boundary alone
MaxTarget == 4      \* largest target given to find_token_boundary alone
MaxChunks == 3      \* longest list given to validate_chunks alone
MaxCount == 2       \* largest token_count in such a list

(***************************************************************************)
(* Program constants.                                                      *)
(***************************************************************************)
Tolerance == 50             \* _is_within_token_limit(..., tolerance=50)
MaxWindow == 500            \* min(500, len(text) // 10)
WindowDivisor == 10
DefaultOverlap == 50        \* ChunkingConfig.overlap_tokens default
InitChunkSize == 1000       \* RecursiveCharacterTextSplitter(chunk_size=1000)
InitChunkOverlap == 100     \* RecursiveCharacterTextSplitter(chunk_overlap=100)
MaxSplitOverlap == 100      \* min(100, target_tokens // 10)
SplitOverlapDivisor == 10

(***************************************************************************)
(* Characters and Python string primitives.                                *)
(***************************************************************************)
Letters == {"a", "W"}
Chars == Letters \cup {".", " ", "nl"}

\* str.isspace() / the regex class \s
IsSpace(c) == c \in {" ", "nl"}

\* the regex class [.!?]
IsSentencePunct(c) == c = "."

Min(a, b) == IF a <= b THEN a ELSE b
Max(a, b) == IF a >= b THEN a ELSE b

\* s[:p] for 0 <= p
Prefix(s, p) == SubSeq(s, 1, Min(p, Len(s)))

\* s[p:] for 0 <= p
Suffix(s, p) == SubSeq(s, Min(p, Len(s)) + 1, Len(s))

\* s[a:b] for 0 <= a, 0 <= b
Slice(s, a, b) == SubSeq(s, a + 1, Min(b, Len(s)))

\* s[-k:] for k > 0
LastChars(s, k) == SubSeq(s, Max(Len(s) - k, 0) + 1, Len(s))

\* str.strip()
strip(s) ==
    LET keep == { i \in 1..Len(s) : ~IsSpace(s[i]) }
    IN  IF keep = {} THEN << >>
        ELSE LET first == CHOOSE i \in keep : \A j \in keep : i <= j
                 last == CHOOSE i \in keep : \A j \in keep : j <= i
             IN  SubSeq(s, first, last)

\* a set of integers as an increasing sequence (the order re.finditer yields)
RECURSIVE Ascending(_)
Ascending(S) ==
    IF S = {} THEN << >>
    ELSE LET m == CHOOSE x \in S : \A y \in S : x <= y
         IN  <<m>> \o Ascending(S \ {m})

(***************************************************************************)
(* TokenManager.                                                           *)
(***************************************************************************)
\* tokens the tokenizer spends on one character: every character costs one
\* token, the wide letter two
TokenWeight(c) == IF c = "W" THEN 2 ELSE 1

\* the number of tokens of a non-empty text: the sum of its characters'
\* weights, summed by halves
RECURSIVE EncodeLen(_)
EncodeLen(s) ==
    IF Len(s) = 1 THEN TokenWeight(s[1])
    ELSE LET h == Len(s) \div 2
         IN  EncodeLen(SubSeq(s, 1, h)) + EncodeLen(SubSeq(s, h + 1, Len(s)))

count_tokens(s) == IF s = << >> THEN 0 ELSE EncodeLen(s)

\* one pass of the binary search loop: mid, the test, the move of left or right
ftb_body_skip(s, target, l, r, b) ==
    LET mid == (l + r) \div 2
    IN  IF count_tokens(Prefix(s, mid)) <= target
        THEN [left |-> mid, right |-> r, best_pos |-> mid]
        ELSE [left |-> l, right |-> mid - 1, best_pos |-> b]

ftb_body(s, target, l, r, b) ==
    LET mid == (l + r) \div 2
    IN  IF count_tokens(Prefix(s, mid)) <= target
        THEN [left |-> mid + 1, right |-> r, best_pos |-> mid]
        ELSE [left |-> l, right |-> mid - 1, best_pos |-> b]

RECURSIVE ftb_loop(_, _, _, _, _)
ftb_loop(s, target, l, r, b) ==
    IF l <= r
    THEN LET n == ftb_body(s, target, l, r, b)
         IN  ftb_loop(s, target, n.left, n.right, n.best_pos)
    ELSE b

find_token_boundary(s, target) ==
    IF s = << >> THEN 0
    ELSE IF count_tokens(s) <= target THEN Len(s)
    ELSE ftb_loop(s, target, 0, Len(s), 0)

get_effective_chunk_size(cfg) == cfg.max_chunk_tokens - cfg.overlap_tokens

(***************************************************************************)
(* BoundaryOptimizer.                                                      *)
(***************************************************************************)
is_within_token_limit_unchecked(s, target_tokens) == TRUE

_is_within_token_limit(s, target_tokens) ==
    count_tokens(s) <= target_tokens + Tolerance

\* match.end() of every match of \n\n+ in s: the ends of the maximal runs of
\* two or more newlines
ParagraphMatchEnds(s) ==
    { j \in 2..Len(s) : /\ s[j] = "nl" /\ s[j-1] = "nl"
                        /\ (j = Len(s) \/ s[j+1] # "nl") }

\* match.end() of every match of [.!?]\s+ in s: the end of each maximal run of
\* whitespace that directly follows a punctuation character
SentenceMatchEnds(s) ==
    { j \in 2..Len(s) :
        /\ IsSpace(s[j])
        /\ (j = Len(s) \/ ~IsSpace(s[j+1]))
        /\ \E i \in 1..(j-1) : /\ IsSentencePunct(s[i])
                               /\ \A k \in (i+1)..j : IsSpace(s[k]) }

\* match.end() of every match of \n in s
LineMatchEnds(s) == { j \in 1..Len(s) : s[j] = "nl" }

\* the test that lets a candidate replace the running best
BetterScoreLax(score, best_score) == score >= best_score

BetterScore(score, best_score) == score > best_score

\* one for-loop over the matches of a tier: ends are the match ends inside
\* text[start_pos:end_pos], in order; best is the running (best_pos, best_score)
RECURSIVE ScanMatches(_, _, _, _, _, _)
ScanMatches(s, target_tokens, start_pos, ends, score, best) ==
    IF ends = << >> THEN best
    ELSE LET pos == start_pos + Head(ends)
             nb == IF /\ _is_within_token_limit(Prefix(s, pos), target_tokens)
                      /\ BetterScore(score, best.score)
                   THEN [pos |-> pos, score |-> score]
                   ELSE best
         IN  ScanMatches(s, target_tokens, start_pos, Tail(ends), score, nb)

find_optimal_boundary(s, target_tokens) ==
    IF s = << >> THEN [pos |-> 0, score |-> 0]
    ELSE IF count_tokens(s) <= target_tokens THEN [pos |-> Len(s), score |-> 10]
    ELSE
      LET approx_pos == find_token_boundary(s, target_tokens)
          search_window == Min(MaxWindow, Len(s) \div WindowDivisor)
          start_pos == Max(0, approx_pos - search_window)
          end_pos == Min(Len(s), approx_pos + search_window)
          window == Slice(s, start_pos, end_pos)
          b0 == [pos |-> approx_pos, score |-> 5]
          b1 == ScanMatches(s, target_tokens, start_pos,
                            Ascending(ParagraphMatchEnds(window)), 10, b0)
          b2 == IF b1.score < 9
                THEN ScanMatches(s, target_tokens, start_pos,
                                 Ascending(SentenceMatchEnds(window)), 8, b1)
                ELSE b1
          b3 == IF b2.score < 7
                THEN ScanMatches(s, target_tokens, start_pos,
                                 Ascending(LineMatchEnds(window)), 6, b2)
                ELSE b2
      IN  b3

\* re.split(r'[.!?]\s+', s)[-1] and the number of pieces
LastSentence(s) ==
    LET ends == SentenceMatchEnds(s)
    IN  IF ends = {} THEN s
        ELSE Suffix(s, CHOOSE j \in ends : \A k \in ends : k <= j)

create_overlap(s, overlap_tokens) ==
    IF s = << >> \/ overlap_tokens <= 0 THEN << >>
    ELSE LET overlap_pos == find_token_boundary(s, overlap_tokens)
         IN  IF overlap_pos >= Len(s) THEN s
             ELSE LET overlap_text == IF overlap_pos > 0
                                      THEN LastChars(s, overlap_pos) ELSE << >>
                  IN  IF SentenceMatchEnds(overlap_text) # {}
                      THEN IF LastSentence(overlap_text) # << >>
                           THEN LastSentence(overlap_text)
                           ELSE overlap_text
                      ELSE overlap_text

\* "\n\n" in s
HasParagraphBreak(s) == \E j \in 2..Len(s) : s[j] = "nl" /\ s[j-1] = "nl"

\* re.search(r'[.!?]\s', s)
HasSentenceEnd(s) == \E j \in 2..Len(s) : IsSpace(s[j]) /\ IsSentencePunct(s[j-1])

get_boundary_info(s, position) ==
    IF position <= 0 \/ position >= Len(s)
    THEN [position |-> position, type |-> "edge", score |-> 0]
    ELSE LET context == Slice(s, Max(0, position - 5), Min(Len(s), position + 5))
         IN  IF HasParagraphBreak(context)
             THEN [position |-> position, type |-> "paragraph", score |-> 10]
             ELSE IF HasSentenceEnd(context)
             THEN [position |-> position, type |-> "sentence", score |-> 8]
             ELSE IF \E j \in 1..Len(context) : context[j] = "nl"
             THEN [position |-> position, type |-> "line", score |-> 6]
             ELSE IF \E j \in 1..Len(context) : context[j] = " "
             THEN [position |-> position, type |-> "word", score |-> 4]
             ELSE [position |-> position, type |-> "character", score |-> 1]

(***************************************************************************)
(* models.py: TextChunk and ChunkingConfig.                                *)
(***************************************************************************)
ChunkTypes == {"FIRST", "MIDDLE", "FINAL"}

\* TextChunk.__post_init__ raises ValueError
TextChunkInvalidOffByOne(c) ==
    \/ c.chunk_id < 0
    \/ strip(c.text) = << >>
    \/ c.token_count <= 1
    \/ c.boundary_score < 0 \/ c.boundary_score > 10

TextChunkInvalid(c) ==
    \/ c.chunk_id < 0
    \/ strip(c.text) = << >>
    \/ c.token_count <= 0
    \/ c.boundary_score < 0 \/ c.boundary_score > 10

\* ChunkingConfig.__post_init__ raises ValueError
ChunkingConfigInvalidStrict(m, o) == m <= 0 \/ o < 0 \/ o > m

ChunkingConfigInvalid(m, o) == m <= 0 \/ o < 0 \/ o >= m

(***************************************************************************)
(* TextChunker.chunk_text.                                                 *)
(***************************************************************************)
\* lines 52-57: the type of the chunk being built
ChunkTypeOf(id, remaining_after) ==
    IF id = 0 THEN "FIRST"
    ELSE IF remaining_after = << >> THEN "FINAL"
    ELSE "MIDDLE"

\* lines 43-48: overlap_chars of the chunk being built
OverlapCharsAlways(cfg, id, chunk_text) ==
    IF cfg.overlap_tokens > 0
    THEN Len(create_overlap(chunk_text, cfg.overlap_tokens))
    ELSE 0

OverlapChars(cfg, id, chunk_text) ==
    IF id > 0 /\ cfg.overlap_tokens > 0
    THEN Len(create_overlap(chunk_text, cfg.overlap_tokens))
    ELSE 0

\* line 77
NextChunkIdStuck(id) == id

NextChunkId(id) == id + 1

\* line 30: the target handed to the boundary search
TargetTokens(cfg) == get_effective_chunk_size(cfg)

\* line 20 (and the while test of line 28): text.strip() is empty
IsBlankEmptyOnly(s) == s = << >>

IsBlank(s) == strip(s) = << >>

\* line 75: the text left for the next pass
AdvanceStuck(remaining, boundary_pos) == strip(remaining)

AdvanceKeepLast(remaining, boundary_pos) == strip(Suffix(remaining, boundary_pos - 1))

Advance(remaining, boundary_pos) == strip(Suffix(remaining, boundary_pos))

\* lines 60-70: the TextChunk built in one pass of the loop
BuildChunk(cfg, remaining, id, position, b) ==
    LET chunk_text == strip(Prefix(remaining, b.pos))
    IN  [chunk_id |-> id,
         chunk_type |-> ChunkTypeOf(id, strip(Suffix(remaining, b.pos))),
         text |-> chunk_text,
         token_count |-> count_tokens(chunk_text),
         start_position |-> position,
         end_position |-> position + Len(chunk_text),
         overlap_with_previous |-> OverlapChars(cfg, id, chunk_text),
         boundary_info |-> get_boundary_info(remaining, b.pos),
         boundary_score |-> b.score]

\* lines 18-26 of chunk_text, entered directly
chunk_text_call ==
    /\ pc = "idle"
    /\ IF IsBlank(text)
       THEN /\ pc' = "raised"
            /\ error' = "InputError"
            /\ UNCHANGED <<remaining_text, chunk_id, current_position, chunks>>
       ELSE /\ pc' = "loop"
            /\ chunks' = << >>
            /\ remaining_text' = text
            /\ chunk_id' = 0
            /\ current_position' = 0
            /\ UNCHANGED error
    /\ UNCHANGED <<config, text, boundary_searches>>
    /\ UNCHANGED <<cfgVars, ftbVars, valVars, splVars, fobVars>>

\* chunk_text_iterator: the generator body runs chunk_text(text) and yields its
\* chunks, so the call goes through the same lines 18-26
chunk_text_iterator_call ==
    /\ pc = "idle"
    /\ IF IsBlank(text)
       THEN /\ pc' = "raised"
            /\ error' = "InputError"
            /\ UNCHANGED <<remaining_text, chunk_id, current_position, chunks>>
       ELSE /\ pc' = "loop"
            /\ chunks' = << >>
            /\ remaining_text' = text
            /\ chunk_id' = 0
            /\ current_position' = 0
            /\ UNCHANGED error
    /\ UNCHANGED <<config, text, boundary_searches>>
    /\ UNCHANGED <<cfgVars, ftbVars, valVars, splVars, fobVars>>

\* lines 28-81: one pass of the while loop
chunk_text_loop ==
    /\ pc = "loop"
    /\ ~IsBlank(remaining_text)
    /\ LET b == find_optimal_boundary(remaining_text, TargetTokens(config))
           c == BuildChunk(config, remaining_text, chunk_id, current_position, b)
       IN  /\ boundary_searches' = boundary_searches + 1
           /\ IF c.text = << >>
              THEN \* line 40: break
                   /\ pc' = "done"
                   /\ UNCHANGED <<remaining_text, chunk_id, current_position,
                                  chunks, error>>
              ELSE IF TextChunkInvalid(c)
              THEN /\ pc' = "raised"
                   /\ error' = "ChunkInvariantError"
                   /\ UNCHANGED <<remaining_text, chunk_id, current_position, chunks>>
              ELSE /\ chunks' = Append(chunks, c)
                   /\ remaining_text' = Advance(remaining_text, b.pos)
                   /\ current_position' = current_position + b.pos
                   /\ chunk_id' = NextChunkId(chunk_id)
                   /\ pc' = IF b.pos = 0 THEN "done" ELSE "loop"
                   /\ UNCHANGED error
    /\ UNCHANGED <<config, text>>
    /\ UNCHANGED <<cfgVars, ftbVars, valVars, splVars, fobVars>>

\* line 28 false, line 83: return chunks
chunk_text_return ==
    /\ pc = "loop"
    /\ IsBlank(remaining_text)
    /\ pc' = "done"
    /\ UNCHANGED <<config, text, remaining_text, chunk_id,
                   current_position, chunks, error, boundary_searches>>
    /\ UNCHANGED <<cfgVars, ftbVars, valVars, splVars, fobVars>>

(***************************************************************************)
(* Input texts of the chunker runs: short texts of two words with a        *)
(* separator after each, and long texts of one word, a separator and a     *)
(* tail of letters, long enough for a search window of two characters.     *)
(***************************************************************************)
Rep(c, n) == [i \in 1..n |-> c]

Words == { Rep(c, n) : c \in Letters, n \in 0..MaxWord }
Separators == { << >>, <<" ">>, <<"nl">>, <<"nl", "nl">>, <<".", " ">> }
ShortTexts == { w1 \o s1 \o w2 \o s2 :
                  w1 \in Words, s1 \in Separators, w2 \in Words, s2 \in Separators }
LongTexts == { w1 \o s1 \o Rep("a", TailLen) : w1 \in Words, s1 \in Separators }
Texts == ShortTexts \cup LongTexts

\* the configs whose construction does not raise
ValidConfigs == { c \in [max_chunk_tokens : 1..MaxTokens, overlap_tokens : 0..MaxTokens] :
                    ~ChunkingConfigInvalid(c.max_chunk_tokens, c.overlap_tokens) }

NoConfig == [max_chunk_tokens |-> 0, overlap_tokens |-> 0]

IdleCfg == cfg_args = <<0, 0>> /\ cfg_pc = "off"
IdleFtb ==
    /\ ftb_text = << >> /\ ftb_target = 0 /\ left = 0 /\ right = 0
    /\ best_pos = 0 /\ ftb_pc = "off" /\ ftb_ret = 0 /\ ftb_iters = 0
IdleVal == vchunks = << >> /\ issues = << >> /\ vpc = "off"
IdleSpl ==
    /\ splitter = [chunk_size |-> InitChunkSize, chunk_overlap |-> InitChunkOverlap]
    /\ spl_target = <<0, 0>> /\ spl_pc = <<"off", "off">>
    /\ spl_used = <<[chunk_size |-> 0, chunk_overlap |-> 0],
                    [chunk_size |-> 0, chunk_overlap |-> 0]>>
IdleFob ==
    /\ fob_text = << >> /\ fob_target = 0 /\ fob_pc = "off"
    /\ fob_ret = [pos |-> 0, score |-> 0]
IdleChunker ==
    /\ config = NoConfig /\ text = << >> /\ pc = "off"
    /\ remaining_text = << >> /\ chunk_id = 0 /\ current_position = 0
    /\ chunks = << >> /\ error = "none" /\ boundary_searches = 0

(***************************************************************************)
(* Spec: a TextChunker built from a valid config, one call on one text.    *)
(***************************************************************************)
Init ==
    /\ config \in ValidConfigs
    /\ text \in Texts
    /\ pc = "idle"
    /\ remaining_text = << >> /\ chunk_id = 0 /\ current_position = 0
    /\ chunks = << >> /\ error = "none" /\ boundary_searches = 0
    /\ IdleCfg /\ IdleFtb /\ IdleVal /\ IdleSpl /\ IdleFob

Next ==
    \/ chunk_text_call
    \/ chunk_text_iterator_call
    \/ chunk_text_loop
    \/ chunk_text_return

Spec == Init /\ [][Next]_vars

(***************************************************************************)
(* SpecConfig: ChunkingConfig(max_chunk_tokens, overlap_tokens).           *)
(***************************************************************************)
ArgValues == (-1..MaxArg) \cup {DefaultOverlap}

\* the dataclass __init__ followed by __post_init__
ChunkingConfig_init ==
    /\ cfg_pc = "new"
    /\ IF ChunkingConfigInvalid(cfg_args[1], cfg_args[2])
       THEN /\ cfg_pc' = "raised"
            /\ error' = "ConfigurationError"
            /\ UNCHANGED config
       ELSE /\ cfg_pc' = "constructed"
            /\ config' = [max_chunk_tokens |-> cfg_args[1],
                          overlap_tokens |-> cfg_args[2]]
            /\ UNCHANGED error
    /\ UNCHANGED <<cfg_args, text, pc, remaining_text, chunk_id, current_position,
                   chunks, boundary_searches>>
    /\ UNCHANGED <<ftbVars, valVars, splVars, fobVars>>

InitConfig ==
    /\ cfg_args \in ArgValues \X ArgValues
    /\ cfg_pc = "new"
    /\ IdleChunker /\ IdleFtb /\ IdleVal /\ IdleSpl /\ IdleFob

NextConfig == ChunkingConfig_init

SpecConfig == InitConfig /\ [][NextConfig]_vars

(***************************************************************************)
(* SpecFtb: TokenManager.find_token_boundary, statement by statement.      *)
(***************************************************************************)
RECURSIVE SeqsUpTo(_, _)
SeqsUpTo(S, n) ==
    IF n = 0 THEN { << >> }
    ELSE LET shorter == SeqsUpTo(S, n - 1)
         IN  shorter \cup { Append(q, c) : q \in shorter, c \in S }

FtbChars == {"a", "W", " "}

\* lines 23-32: the early returns, or the start of the binary search
ftb_enter ==
    /\ ftb_pc = "call"
    /\ IF ftb_text = << >>
       THEN /\ ftb_pc' = "returned" /\ ftb_ret' = 0
            /\ UNCHANGED <<left, right, best_pos>>
       ELSE IF count_tokens(ftb_text) <= ftb_target
       THEN /\ ftb_pc' = "returned" /\ ftb_ret' = Len(ftb_text)
            /\ UNCHANGED <<left, right, best_pos>>
       ELSE /\ ftb_pc' = "search"
            /\ left' = 0 /\ right' = Len(ftb_text) /\ best_pos' = 0
            /\ UNCHANGED ftb_ret
    /\ UNCHANGED <<ftb_text, ftb_target, ftb_iters>>
    /\ UNCHANGED <<chunkerVars, cfgVars, valVars, splVars, fobVars>>

\* lines 34-42: one pass of the while loop
ftb_step ==
    /\ ftb_pc = "search"
    /\ left <= right
    /\ LET n == ftb_body(ftb_text, ftb_target, left, right, best_pos)
       IN  /\ left' = n.left /\ right' = n.right /\ best_pos' = n.best_pos
    /\ ftb_iters' = ftb_iters + 1
    /\ UNCHANGED <<ftb_text, ftb_target, ftb_pc, ftb_ret>>
    /\ UNCHANGED <<chunkerVars, cfgVars, valVars, splVars, fobVars>>

\* line 34 false, line 44: return best_pos
ftb_return ==
    /\ ftb_pc = "search"
    /\ left > right
    /\ ftb_pc' = "returned"
    /\ ftb_ret' = best_pos
    /\ UNCHANGED <<ftb_text, ftb_target, left, right, best_pos, ftb_iters>>
    /\ UNCHANGED <<chunkerVars, cfgVars, valVars, splVars, fobVars>>

InitFtb ==
    /\ ftb_text \in SeqsUpTo(FtbChars, MaxLen)
    /\ ftb_target \in 0..MaxTarget
    /\ left = 0 /\ right = 0 /\ best_pos = 0
    /\ ftb_pc = "call" /\ ftb_ret = 0 /\ ftb_iters = 0
    /\ IdleChunker /\ IdleCfg /\ IdleVal /\ IdleSpl /\ IdleFob

NextFtb == ftb_enter \/ ftb_step \/ ftb_return

SpecFtb == InitFtb /\ [][NextFtb]_vars

(***************************************************************************)
(* SpecValidate: TextChunker.validate_chunks on a list built by the caller.*)
(***************************************************************************)
\* the issues one chunk adds, in the order of lines 121-133
ChunkIssuesNoLenTest(i, c, n, max_chunk_tokens) ==
    (IF c.token_count > max_chunk_tokens
     THEN << [kind |-> "exceeds token limit", index |-> i] >> ELSE << >>)
    \o (IF i = 0 /\ c.chunk_type # "FIRST"
        THEN << [kind |-> "first not FIRST", index |-> i] >> ELSE << >>)
    \o (IF i = n - 1 /\ c.chunk_type # "FINAL"
        THEN << [kind |-> "last not FINAL", index |-> i] >> ELSE << >>)
    \o (IF strip(c.text) = << >>
        THEN << [kind |-> "empty text", index |-> i] >> ELSE << >>)

ChunkIssues(i, c, n, max_chunk_tokens) ==
    (IF c.token_count > max_chunk_tokens
     THEN << [kind |-> "exceeds token limit", index |-> i] >> ELSE << >>)
    \o (IF i = 0 /\ c.chunk_type # "FIRST"
        THEN << [kind |-> "first not FIRST", index |-> i] >> ELSE << >>)
    \o (IF i = n - 1 /\ c.chunk_type # "FINAL" /\ n > 1
        THEN << [kind |-> "last not FINAL", index |-> i] >> ELSE << >>)
    \o (IF strip(c.text) = << >>
        THEN << [kind |-> "empty text", index |-> i] >> ELSE << >>)

\* the for loop of lines 119-133 from index i (0-based) on
RECURSIVE IssuesFrom(_, _, _)
IssuesFrom(cs, i, max_chunk_tokens) ==
    IF i >= Len(cs) THEN << >>
    ELSE ChunkIssues(i, cs[i + 1], Len(cs), max_chunk_tokens)
         \o IssuesFrom(cs, i + 1, max_chunk_tokens)

validate_chunks(cs, max_chunk_tokens) == IssuesFrom(cs, 0, max_chunk_tokens)

validate_chunks_call ==
    /\ vpc = "call"
    /\ issues' = validate_chunks(vchunks, config.max_chunk_tokens)
    /\ vpc' = "returned"
    /\ UNCHANGED vchunks
    /\ UNCHANGED <<chunkerVars, cfgVars, ftbVars, splVars, fobVars>>

GivenChunks == [token_count : 1..MaxCount, chunk_type : ChunkTypes,
                text : { <<" ">>, <<"a">> }]

InitValidate ==
    /\ vchunks \in SeqsUpTo(GivenChunks, MaxChunks)
    /\ issues = << >>
    /\ vpc = "call"
    /\ config = [max_chunk_tokens |-> 1, overlap_tokens |-> 0]
    /\ text = << >> /\ pc = "off"
    /\ remaining_text = << >> /\ chunk_id = 0 /\ current_position = 0
    /\ chunks = << >> /\ error = "none" /\ boundary_searches = 0
    /\ IdleCfg /\ IdleFtb /\ IdleSpl /\ IdleFob

NextValidate == validate_chunks_call

SpecValidate == InitValidate /\ [][NextValidate]_vars

(***************************************************************************)
(* SpecSplit: two callers of split_with_langchain on one BoundaryOptimizer.*)
(* splitter holds _chunk_size and _chunk_overlap of self.langchain_splitter*)
(* spl_used[t] is the pair split_text worked with in caller t.             *)
(***************************************************************************)
Callers == {1, 2}
SplitTargets == {10, 20, 50, 2000}

\* line 152
split_set_size(t) ==
    /\ spl_pc[t] = "call"
    /\ splitter' = [splitter EXCEPT !.chunk_size = spl_target[t]]
    /\ spl_pc' = [spl_pc EXCEPT ![t] = "size set"]
    /\ UNCHANGED <<spl_target, spl_used>>
    /\ UNCHANGED <<chunkerVars, cfgVars, ftbVars, valVars, fobVars>>

\* line 153
split_set_overlap(t) ==
    /\ spl_pc[t] = "size set"
    /\ splitter' = [splitter EXCEPT !.chunk_overlap =
                       Min(MaxSplitOverlap, spl_target[t] \div SplitOverlapDivisor)]
    /\ spl_pc' = [spl_pc EXCEPT ![t] = "overlap set"]
    /\ UNCHANGED <<spl_target, spl_used>>
    /\ UNCHANGED <<chunkerVars, cfgVars, ftbVars, valVars, fobVars>>

\* line 155: split_text reads the splitter's fields
split_text(t) ==
    /\ spl_pc[t] = "overlap set"
    /\ spl_used' = [spl_used EXCEPT ![t] = splitter]
    /\ spl_pc' = [spl_pc EXCEPT ![t] = "returned"]
    /\ UNCHANGED <<spl_target, splitter>>
    /\ UNCHANGED <<chunkerVars, cfgVars, ftbVars, valVars, fobVars>>

InitSplit ==
    /\ splitter = [chunk_size |-> InitChunkSize, chunk_overlap |-> InitChunkOverlap]
    /\ spl_target \in SplitTargets \X SplitTargets
    /\ spl_pc = <<"call", "call">>
    /\ spl_used = <<[chunk_size |-> 0, chunk_overlap |-> 0],
                    [chunk_size |-> 0, chunk_overlap |-> 0]>>
    /\ IdleChunker /\ IdleCfg /\ IdleFtb /\ IdleVal /\ IdleFob

NextSplit ==
    \E t \in Callers : split_set_size(t) \/ split_set_overlap(t) \/ split_text(t)

SpecSplit == InitSplit /\ [][NextSplit]_vars

(***************************************************************************)
(* SpecFob: BoundaryOptimizer.find_optimal_boundary on a given text.       *)
(* NearTexts put two separators a letter apart in front of a tail that     *)
(* makes the search window three characters wide; FarTexts are long texts  *)
(* of wide letters, where a separator inside the window can lie more than  *)
(* the tolerance past the target.                                          *)
(***************************************************************************)
FobTail == 28       \* tail of a NearText
FarHead == 24       \* shortest head of a FarText
FarTail == 261      \* tail of a FarText
FobMaxTarget == 3   \* largest target_tokens tried

NearTexts == { Rep("a", n) \o s1 \o <<"a">> \o s2 \o Rep("a", FobTail) :
                 n \in 0..MaxWord, s1 \in Separators, s2 \in Separators }
FarTexts == { Rep("W", n) \o s1 \o <<"W">> \o s2 \o Rep("W", FarTail) :
                n \in FarHead..(FarHead + 2), s1 \in Separators, s2 \in Separators }
FobTexts == { << >>, <<"a">>, <<"W">>, <<"a", "nl", "nl", "a">> }
            \cup NearTexts \cup FarTexts

find_optimal_boundary_call ==
    /\ fob_pc = "call"
    /\ fob_ret' = find_optimal_boundary(fob_text, fob_target)
    /\ fob_pc' = "returned"
    /\ UNCHANGED <<fob_text, fob_target>>
    /\ UNCHANGED <<chunkerVars, cfgVars, ftbVars, valVars, splVars>>

InitFob ==
    /\ fob_text \in FobTexts
    /\ fob_target \in (-1)..FobMaxTarget
    /\ fob_pc = "call"
    /\ fob_ret = [pos |-> 0, score |-> 0]
    /\ IdleChunker /\ IdleCfg /\ IdleFtb /\ IdleVal /\ IdleSpl

NextFob == find_optimal_boundary_call

SpecFob == InitFob /\ [][NextFob]_vars

(***************************************************************************)
(* Claims.                                                                 *)
(***************************************************************************)
AllSpace(s) == \A i \in 1..Len(s) : s[i] \in {" ", "nl"}

\* C1: every chunk chunk_text emits has token_count <= max_chunk_tokens; the
\* tolerance of the boundary search never shows in an emitted chunk.
C1_ChunkWithinMax ==
    \A k \in 1..Len(chunks) : chunks[k].token_count <= config.max_chunk_tokens

\* C2: a returned sequence of n chunks has n >= 1, its first chunk is the one
\* FIRST, for n > 1 its last chunk is the one FINAL, and all others are MIDDLE,
\* however the loop ended.
C2_ChunkKinds ==
    pc = "done" =>
        LET n == Len(chunks)
        IN  /\ n >= 1
            /\ chunks[1].chunk_type = "FIRST"
            /\ (n > 1 => chunks[n].chunk_type = "FINAL")
            /\ \A k \in 2..(n - 1) : chunks[k].chunk_type = "MIDDLE"

\* C3 as claimed: a non-blank text whose token count is below max_chunk_tokens
\* comes back as exactly one chunk, FIRST, with boundary_score 1.0 and
\* overlap_with_previous 0, whatever overlap_tokens is.
C3_BelowMaxOneChunk ==
    (pc = "done" /\ count_tokens(text) < config.max_chunk_tokens) =>
        /\ Len(chunks) = 1
        /\ chunks[1].chunk_type = "FIRST"
        /\ chunks[1].boundary_score = 10
        /\ chunks[1].overlap_with_previous = 0

\* C3 amended: a non-blank text whose token count is at most
\* max_chunk_tokens - overlap_tokens comes back as exactly one chunk, FIRST,
\* with boundary_score 1.0 and overlap_with_previous 0.
C3_WithinEffectiveOneChunk ==
    (pc \in {"done", "raised"} /\ ~AllSpace(text)
       /\ count_tokens(text) <= config.max_chunk_tokens - config.overlap_tokens) =>
        /\ pc = "done"
        /\ Len(chunks) = 1
        /\ chunks[1].chunk_type = "FIRST"
        /\ chunks[1].boundary_score = 10
        /\ chunks[1].overlap_with_previous = 0

C3_Witness ==
    /\ pc = "done" /\ Len(chunks) = 1 /\ config.overlap_tokens > 0
    /\ count_tokens(text) = config.max_chunk_tokens - config.overlap_tokens
    /\ chunks[1].text # text

\* C4: the k-th emitted chunk has chunk_id k (counting from 0): the ids of a
\* sequence of n chunks are exactly 0 .. n-1 in emission order.
C4_ChunkIdsInOrder ==
    \A k \in 1..Len(chunks) : chunks[k].chunk_id = k - 1

C4_Witness == pc = "done" /\ Len(chunks) >= 3

\* C6: overlap_with_previous is 0 for the first chunk, and for a later chunk
\* it is a number of characters at the start of the chunk that repeat the
\* end of the previous chunk.
C6_OverlapRepeatsPreviousTail ==
    \A k \in 1..Len(chunks) :
        LET ov == chunks[k].overlap_with_previous
        IN  IF k = 1 THEN ov = 0
            ELSE /\ ov <= Len(chunks[k].text)
                 /\ ov <= Len(chunks[k-1].text)
                 /\ SubSeq(chunks[k].text, 1, ov)
                      = SubSeq(chunks[k-1].text, Len(chunks[k-1].text) - ov + 1,
                               Len(chunks[k-1].text))

\* C7: a call raises the input error exactly when its text is empty or all
\* whitespace, and then no boundary search was made and no chunk produced.
C7_InputErrorIffBlank ==
    pc # "idle" =>
        /\ (error = "InputError") <=> AllSpace(text)
        /\ error = "InputError" =>
             (pc = "raised" /\ chunks = << >> /\ boundary_searches = 0)

C7_Witness ==
    pc = "raised" /\ error = "InputError" /\ Len(text) > 0

\* C8: constructing a ChunkingConfig raises exactly when max_chunk_tokens <= 0,
\* overlap_tokens < 0 or overlap_tokens >= max_chunk_tokens; a constructed
\* config has 0 <= overlap_tokens < max_chunk_tokens and an effective chunk
\* size max_chunk_tokens - overlap_tokens of at least 1.
C8_ConfigValidation ==
    cfg_pc # "new" =>
        /\ (cfg_pc = "raised") <=>
             (cfg_args[1] <= 0 \/ cfg_args[2] < 0 \/ cfg_args[2] >= cfg_args[1])
        /\ cfg_pc = "raised" => error = "ConfigurationError"
        /\ cfg_pc = "constructed" =>
             /\ config.max_chunk_tokens = cfg_args[1]
             /\ config.overlap_tokens = cfg_args[2]
             /\ 0 <= config.overlap_tokens
             /\ config.overlap_tokens < config.max_chunk_tokens
             /\ get_effective_chunk_size(config)
                  = config.max_chunk_tokens - config.overlap_tokens
             /\ get_effective_chunk_size(config) >= 1

C8_Witness ==
    cfg_pc = "raised" /\ cfg_args = <<DefaultOverlap, DefaultOverlap>>

\* C5: find_token_boundary returns len(text) when the whole text is within
\* the target, and otherwise the largest offset whose prefix is within the
\* target; the binary search ends, after at most len(text) + 1 passes.
C5_FtbMaximalPrefix ==
    /\ ftb_iters <= Len(ftb_text) + 1
    /\ ftb_pc = "returned" =>
         IF count_tokens(ftb_text) <= ftb_target
         THEN ftb_ret = Len(ftb_text)
         ELSE /\ ftb_ret \in 0..Len(ftb_text)
              /\ count_tokens(SubSeq(ftb_text, 1, ftb_ret)) <= ftb_target
              /\ \A p \in (ftb_ret + 1)..Len(ftb_text) :
                     count_tokens(SubSeq(ftb_text, 1, p)) > ftb_target

C5_Witness ==
    /\ ftb_pc = "returned"
    /\ count_tokens(ftb_text) > ftb_target
    /\ ftb_ret > 0 /\ ftb_ret < Len(ftb_text) - 1
    /\ ftb_ret # ftb_target
    /\ ftb_iters >= 3

\* C9: validate_chunks returns no issue exactly when no chunk is over
\* max_chunk_tokens, the first chunk is FIRST, the last chunk of a list of two
\* or more is FINAL and no chunk has blank text; every over-limit chunk gets
\* an issue that names its index.
C9_ValidateIssues ==
    vpc = "returned" =>
        LET n == Len(vchunks)
            over(k) == vchunks[k].token_count > config.max_chunk_tokens
        IN  /\ (issues = << >>) <=>
                  ~ \/ \E k \in 1..n : over(k)
                    \/ (n >= 1 /\ vchunks[1].chunk_type # "FIRST")
                    \/ (n > 1 /\ vchunks[n].chunk_type # "FINAL")
                    \/ \E k \in 1..n : AllSpace(vchunks[k].text)
            /\ \A k \in 1..n :
                  over(k) <=>
                    \E j \in 1..Len(issues) :
                       issues[j] = [kind |-> "exceeds token limit", index |-> k - 1]

C9_Witness ==
    /\ vpc = "returned"
    /\ Len(vchunks) = 3
    /\ vchunks[2].token_count > config.max_chunk_tokens
    /\ issues = << [kind |-> "exceeds token limit", index |-> 1] >>

\* C10: a call of split_with_langchain that has returned worked with the
\* chunk size and overlap of its own target_tokens, whatever the other caller
\* of the shared BoundaryOptimizer did meanwhile.
C10_SplitAsIfAlone ==
    \A t \in Callers :
        spl_pc[t] = "returned" =>
            spl_used[t] = [chunk_size |-> spl_target[t],
                           chunk_overlap |->
                               IF spl_target[t] \div 10 < 100
                               THEN spl_target[t] \div 10 ELSE 100]

\* C11: chunk_text ends on every non-blank text: a pass of the loop that emits
\* a chunk moves the position forward and shortens the remaining text, a pass
\* that emits none ends the loop at once, and the loop makes at most
\* len(text) passes.
C11_LoopTerminates ==
    /\ [][pc = "loop" =>
            /\ chunks' # chunks =>
                 /\ current_position' > current_position
                 /\ Len(remaining_text') < Len(remaining_text)
            /\ (chunks' = chunks /\ boundary_searches' # boundary_searches) =>
                 pc' = "done"]_vars
    /\ [](boundary_searches <= Len(text))
    /\ [](pc = "loop" => boundary_searches + Len(remaining_text) <= Len(text))

C11_Witness ==
    /\ pc = "done" /\ Len(text) >= 3 /\ boundary_searches = Len(text)
    /\ Len(chunks) = Len(text) - 1

\* C14: with a tokenizer that spends at least one token on every non-empty
\* string, chunk_text never raises the chunk-invariant error on a non-blank
\* text: every chunk it builds has chunk_id >= 0, text that is not blank,
\* token_count > 0 and a boundary_score that is one of 0.5, 0.6, 0.8, 1.0.
C14_NoChunkInvariantError ==
    /\ error # "ChunkInvariantError"
    /\ (pc = "raised" => AllSpace(text))
    /\ \A k \in 1..Len(chunks) :
          /\ chunks[k].chunk_id >= 0
          /\ ~AllSpace(chunks[k].text)
          /\ chunks[k].token_count > 0
          /\ chunks[k].boundary_score \in {5, 6, 8, 10}

C14_Witness ==
    /\ pc = "done"
    /\ {5, 8, 10} \subseteq { chunks[k].boundary_score : k \in 1..Len(chunks) }

\* C15: chunk_text consumes the input from left to right: every chunk text is
\* a trimmed contiguous slice of the input, the chunk texts joined in order
\* are, whitespace aside, a prefix of the input and the whole input when the
\* loop ends on an empty remaining text; chunk 0 starts at 0, end_position -
\* start_position is the length of the chunk text, and a chunk ends no later
\* than the next one starts.
RECURSIVE NoSpace(_)
NoSpace(s) ==
    IF s = << >> THEN << >>
    ELSE IF s[1] \in {" ", "nl"} THEN NoSpace(Tail(s))
    ELSE <<s[1]>> \o NoSpace(Tail(s))

RECURSIVE JoinedTexts(_)
JoinedTexts(cs) ==
    IF cs = << >> THEN << >> ELSE cs[1].text \o JoinedTexts(Tail(cs))

IsSliceOf(c, s) ==
    \E i \in 1..(Len(s) - Len(c) + 1) : SubSeq(s, i, i + Len(c) - 1) = c

FobApprox == find_token_boundary(fob_text, fob_target)
FobWindow == Min(MaxWindow, Len(fob_text) \div WindowDivisor)
FobStart == IF FobApprox - FobWindow > 0 THEN FobApprox - FobWindow ELSE 0
FobEnd ==
    IF FobApprox + FobWindow < Len(fob_text)
    THEN FobApprox + FobWindow ELSE Len(fob_text)
FobPassing(ends) ==
    { FobStart + j : j \in { e \in ends :
        count_tokens(SubSeq(fob_text, 1, FobStart + e)) <= fob_target + Tolerance } }
FobParagraphs == FobPassing(ParagraphMatchEnds(SubSeq(fob_text, FobStart + 1, FobEnd)))
FobSentences == FobPassing(SentenceMatchEnds(SubSeq(fob_text, FobStart + 1, FobEnd)))
FobLines == FobPassing(LineMatchEnds(SubSeq(fob_text, FobStart + 1, FobEnd)))
Least(S) == CHOOSE x \in S : \A y \in S : x <= y

\* C12: when the text does not fit in target_tokens, find_optimal_boundary
\* returns the first passing paragraph break of the window with score 1.0,
\* else the first passing sentence end with 0.8, else the first passing line
\* break with 0.6, else the approximate offset with 0.5.
C12_TierPriority ==
    (fob_pc = "returned" /\ fob_text # << >>
       /\ count_tokens(fob_text) > fob_target) =>
        fob_ret =
          IF FobParagraphs # {} THEN [pos |-> Least(FobParagraphs), score |-> 10]
          ELSE IF FobSentences # {} THEN [pos |-> Least(FobSentences), score |-> 8]
          ELSE IF FobLines # {} THEN [pos |-> Least(FobLines), score |-> 6]
          ELSE [pos |-> FobApprox, score |-> 5]

C12_Witness ==
    /\ fob_pc = "returned" /\ fob_text # << >>
    /\ count_tokens(fob_text) > fob_target
    /\ FobParagraphs = {}
    /\ Cardinality(FobSentences) >= 2
    /\ fob_ret = [pos |-> Least(FobSentences), score |-> 8]

====
